---------------------------- MODULE Spec2Model ----------------------------
(***************************************************************************)
(* A model of scripts/generate_config.py (class ConfigGenerator): the      *)
(* capability detector, the GitHub metadata fetcher, the assembly of the   *)
(* configuration document, its canonical YAML text and git-style content   *)
(* hash, the content-addressed store and the two output files of main.     *)
(*                                                                         *)
(* Text is a sequence of Unicode code points, bytes are a sequence of      *)
(* numbers 0..255.  A Python value is a record [t, v, id]: t is its type,  *)
(* v its payload and id the identity of the object (the place that made    *)
(* it; "" for a scalar, whose identity nothing reads).  A dict is the      *)
(* sequence of its <<key, value>> pairs in insertion order, as CPython     *)
(* keeps them.                                                             *)
(***************************************************************************)
EXTENDS Integers, Sequences, FiniteSets, TLC

VARIABLES
    pc,            \* position of the running call
    env,           \* os.environ as read by __init__, plus the spec file
    markers,       \* the marker paths that exist in the working directory
    api,           \* what each GitHub endpoint answers during this run
    clock,         \* datetime.utcnow(), in seconds after 2025-01-01T00:00:00
    capabilities,  \* result of detect_capabilities
    metadata,      \* result of fetch_github_metadata (a value or a raise)
    config,        \* result of generate_config
    config_hash,   \* first result of compute_config_hash
    config_yaml,   \* second result of compute_config_hash
    dirs,          \* directories under STORAGE_PATH that exist
    store,         \* files under STORAGE_PATH/<xx>/
    config_file,   \* the file CONFIG_FILE_NAME
    hash_file,     \* the file .nodeprop-hash
    log,           \* what this run printed, one tag per message
    exit_code,     \* the process exit status of the last finished run
    runs           \* how many runs of main have been started

vars == <<pc, env, markers, api, clock, capabilities, metadata, config,
          config_hash, config_yaml, dirs, store, config_file, hash_file,
          log, exit_code, runs>>

-----------------------------------------------------------------------------
(* String literals of the source, as code points.                          *)

\* the keys of the dicts the program builds and reads
K ==
    [ name |-> <<110, 97, 109, 101>>,   \* "name"
      address |-> <<97, 100, 100, 114, 101, 115, 115>>,   \* "address"
      capabilities |-> <<99, 97, 112, 97, 98, 105, 108, 105, 116, 105, 101, 115>>,   \* "capabilities"
      status |-> <<115, 116, 97, 116, 117, 115>>,   \* "status"
      metadata |-> <<109, 101, 116, 97, 100, 97, 116, 97>>,   \* "metadata"
      description |-> <<100, 101, 115, 99, 114, 105, 112, 116, 105, 111, 110>>,   \* "description"
      owner |-> <<111, 119, 110, 101, 114>>,   \* "owner"
      last_updated |-> <<108, 97, 115, 116, 95, 117, 112, 100, 97, 116, 101, 100>>,   \* "last_updated"
      tags |-> <<116, 97, 103, 115>>,   \* "tags"
      github |-> <<103, 105, 116, 104, 117, 98>>,   \* "github"
      custom_properties |-> <<99, 117, 115, 116, 111, 109, 95, 112, 114, 111, 112, 101, 114, 116, 105, 101, 115>>,   \* "custom_properties"
      deploy_environment |-> <<100, 101, 112, 108, 111, 121, 95, 101, 110, 118, 105, 114, 111, 110, 109, 101, 110, 116>>,   \* "deploy_environment"
      monitoring_enabled |-> <<109, 111, 110, 105, 116, 111, 114, 105, 110, 103, 95, 101, 110, 97, 98, 108, 101, 100>>,   \* "monitoring_enabled"
      auto_scale |-> <<97, 117, 116, 111, 95, 115, 99, 97, 108, 101>>,   \* "auto_scale"
      service |-> <<115, 101, 114, 118, 105, 99, 101>>,   \* "service"
      app |-> <<97, 112, 112>>,   \* "app"
      image |-> <<105, 109, 97, 103, 101>>,   \* "image"
      network |-> <<110, 101, 116, 119, 111, 114, 107>>,   \* "network"
      domain |-> <<100, 111, 109, 97, 105, 110>>,   \* "domain"
      stars |-> <<115, 116, 97, 114, 115>>,   \* "stars"
      forks |-> <<102, 111, 114, 107, 115>>,   \* "forks"
      issues |-> <<105, 115, 115, 117, 101, 115>>,   \* "issues"
      license |-> <<108, 105, 99, 101, 110, 115, 101>>,   \* "license"
      topics |-> <<116, 111, 112, 105, 99, 115>>,   \* "topics"
      pulls |-> <<112, 117, 108, 108, 115>>,   \* "pulls"
      open |-> <<111, 112, 101, 110>>,   \* "open"
      closed |-> <<99, 108, 111, 115, 101, 100>>,   \* "closed"
      latest_commit |-> <<108, 97, 116, 101, 115, 116, 95, 99, 111, 109, 109, 105, 116>>,   \* "latest_commit"
      message |-> <<109, 101, 115, 115, 97, 103, 101>>,   \* "message"
      stargazers_count |-> <<115, 116, 97, 114, 103, 97, 122, 101, 114, 115, 95, 99, 111, 117, 110, 116>>,   \* "stargazers_count"
      forks_count |-> <<102, 111, 114, 107, 115, 95, 99, 111, 117, 110, 116>>,   \* "forks_count"
      open_issues_count |-> <<111, 112, 101, 110, 95, 105, 115, 115, 117, 101, 115, 95, 99, 111, 117, 110, 116>>,   \* "open_issues_count"
      spdx_id |-> <<115, 112, 100, 120, 95, 105, 100>>,   \* "spdx_id"
      names |-> <<110, 97, 109, 101, 115>>,   \* "names"
      updated_at |-> <<117, 112, 100, 97, 116, 101, 100, 95, 97, 116>>,   \* "updated_at"
      id |-> <<105, 100>>,   \* "id"
      artifacts |-> <<97, 114, 116, 105, 102, 97, 99, 116, 115>>,   \* "artifacts"
      backend |-> <<98, 97, 99, 107, 101, 110, 100>>,   \* "backend"
      runtime |-> <<114, 117, 110, 116, 105, 109, 101>> ]   \* "runtime"

\* the texts the program and its YAML serializer write
T ==
    [ active |-> <<97, 99, 116, 105, 118, 101>>,   \* "active"
      NotFound |-> <<78, 111, 116, 32, 70, 111, 117, 110, 100>>,   \* "Not Found"
      NoLicense |-> <<78, 111, 32, 76, 105, 99, 101, 110, 115, 101>>,   \* "No License"
      network |-> <<112, 114, 111, 106, 101, 99, 116, 45, 100, 111, 109, 97, 105, 110, 45, 110, 97, 109, 101, 115, 112, 97, 99, 101>>,   \* "project-domain-namespace"
      address |-> <<104, 116, 116, 112, 115, 58, 47, 47, 103, 105, 116, 104, 117, 98, 46, 99, 111, 109, 47>>,   \* "https://github.com/"
      description |-> <<65, 117, 116, 111, 45, 103, 101, 110, 101, 114, 97, 116, 101, 100, 32, 99, 111, 110, 102, 105, 103, 117, 114, 97, 116, 105, 111, 110, 32, 102, 111, 114, 32>>,   \* "Auto-generated configuration for "
      dev |-> <<46, 100, 101, 118>>,   \* ".dev"
      config |-> <<99, 111, 110, 102, 105, 103>>,   \* "config"
      null |-> <<110, 117, 108, 108>>,   \* "null"
      true |-> <<116, 114, 117, 101>>,   \* "true"
      false |-> <<102, 97, 108, 115, 101>>,   \* "false"
      emptyList |-> <<91, 93>>,   \* "[]"
      emptyDict |-> <<123, 125>>,   \* "{}"
      containerized |-> <<99, 111, 110, 116, 97, 105, 110, 101, 114, 105, 122, 101, 100>>,   \* "containerized"
      dockerCompose |-> <<100, 111, 99, 107, 101, 114, 45, 99, 111, 109, 112, 111, 115, 101>>,   \* "docker-compose"
      pipeline |-> <<112, 105, 112, 101, 108, 105, 110, 101>>,   \* "pipeline"
      deployable |-> <<100, 101, 112, 108, 111, 121, 97, 98, 108, 101>>,   \* "deployable"
      hexDigitsLower |-> <<48, 49, 50, 51, 52, 53, 54, 55, 56, 57, 97, 98, 99, 100, 101, 102>>,   \* "0123456789abcdef"
      hexDigitsUpper |-> <<48, 49, 50, 51, 52, 53, 54, 55, 56, 57, 65, 66, 67, 68, 69, 70>>,   \* "0123456789ABCDEF"
      indicators |-> <<45, 63, 58, 44, 91, 93, 123, 125, 35, 38, 42, 33, 124, 62, 39, 34, 37, 64, 96>> ]   \* the indicator characters of YAML

\* values of the environment: repositories, commits, answers of GitHub
T_MIT == <<77, 73, 84>>   \* "MIT"
T_t1 == <<116, 49>>   \* "t1"
T_docker == <<100, 111, 99, 107, 101, 114>>   \* "docker"
T_datePrefix == <<50, 48, 50, 53, 45, 48, 49, 45, 48, 49, 84, 48, 48, 58, 48, 48, 58>>   \* "2025-01-01T00:00:"
T_updatedAt == <<50, 48, 50, 52, 45, 49, 50, 45, 51, 49, 84, 50, 51, 58, 53, 57, 58, 53, 57, 90>>   \* "2024-12-31T23:59:59Z"
T_acmeWidget == <<97, 99, 109, 101, 47, 119, 105, 100, 103, 101, 116>>   \* "acme/widget"
T_noslash == <<110, 111, 115, 108, 97, 115, 104>>   \* "noslash"
T_twoSlashes == <<97, 47, 98, 47, 99>>   \* "a/b/c"
T_ciBot == <<99, 105, 45, 98, 111, 116>>   \* "ci-bot"
T_shaEmpty == <<>>   \* ""
T_shaShort == <<97, 98, 99>>   \* "abc"
T_shaSeven == <<49, 50, 51, 52, 53, 54, 55>>   \* "1234567"
T_shaLong == <<97, 98, 99, 100, 101, 102, 49, 50, 51, 52, 53, 54, 55, 56, 57, 48>>   \* "abcdef1234567890"

-----------------------------------------------------------------------------
(* Bounds of the model.                                                    *)

\* Number of hexadecimal digits of the model's digest (SHA-256 has 64).
DigestHexLen == 6
\* Runs of main that one behaviour holds.
MaxRuns == 2
\* Largest reading of the clock, in seconds.
MaxClock == 1
\* Most keys of a document handed to compute_config_hash on its own.
MaxKeys == 2

-----------------------------------------------------------------------------
(* Python values.                                                          *)

PyStr(s) == [t |-> "str", v |-> s, id |-> ""]
PyInt(n) == [t |-> "int", v |-> n, id |-> ""]
PyNone == [t |-> "none", v |-> <<>>, id |-> ""]
\* a list or a dict made at the place id
PyList(id, xs) == [t |-> "list", v |-> xs, id |-> id]
PyDict(id, ps) == [t |-> "dict", v |-> ps, id |-> id]

\* F(a), with a evaluated once and bound to its value: TLC evaluates the
\* argument of an operator again wherever the body names it under a quantifier
With(a, F(_)) == CHOOSE r \in {F(x) : x \in {a}} : TRUE

IsDict(x) == x.t = "dict"
IsScalar(x) == x.t \in {"str", "int", "none"}

\* the content of a value, the identities of its objects left out
RECURSIVE Plain(_)
Plain(x) ==
    CASE IsScalar(x) -> x
      [] x.t = "list" -> PyList("", [i \in DOMAIN x.v |-> Plain(x.v[i])])
      [] x.t = "dict" -> PyDict("", [i \in DOMAIN x.v |-> <<x.v[i][1], Plain(x.v[i][2])>>])

Min(a, b) == IF a < b THEN a ELSE b
\* x in xs
InList(x, xs) == \E i \in DOMAIN xs : xs[i] = x

HasKey(d, k) == \E i \in DOMAIN d.v : d.v[i][1] = k
\* d[k]
Item(d, k) == d.v[CHOOSE i \in DOMAIN d.v : d.v[i][1] = k][2]
\* d.get(k, default)
DictGet(d, k, default) == IF HasKey(d, k) THEN Item(d, k) ELSE default
\* d[k] = x: an existing key keeps its place, a new key goes last
DictSet(d, k, x) ==
    IF HasKey(d, k)
    THEN PyDict(d.id, [i \in DOMAIN d.v |-> IF d.v[i][1] = k THEN <<k, x>> ELSE d.v[i]])
    ELSE PyDict(d.id, Append(d.v, <<k, x>>))
\* a dict display {k1: v1, k2: v2, ...}: the pairs are stored left to right
RECURSIVE DictDisplay(_, _)
DictDisplay(id, ps) ==
    IF ps = <<>> THEN PyDict(id, <<>>)
    ELSE LET n == Len(ps)
         IN DictSet(DictDisplay(id, SubSeq(ps, 1, n - 1)), ps[n][1], ps[n][2])

\* s[:n]
SlicePrefix(s, n) == SubSeq(s, 1, Min(n, Len(s)))
\* s[n:]
SliceFrom(s, n) == SubSeq(s, Min(n, Len(s)) + 1, Len(s))

\* a < b on str: by code point, a proper prefix first
LexLess(a, b) ==
    \/ \E i \in 1..Min(Len(a), Len(b)) :
          /\ a[i] < b[i]
          /\ \A j \in 1..(i - 1) : a[j] = b[j]
    \/ /\ Len(a) < Len(b)
       /\ \A j \in 1..Len(a) : a[j] = b[j]

\* str(n) of a non-negative int
RECURSIVE Decimal(_)
Decimal(n) == IF n < 10 THEN <<48 + n>> ELSE Decimal(n \div 10) \o <<48 + (n % 10)>>

\* the concatenation of the texts of a sequence
RECURSIVE Join(_)
Join(ts) ==
    IF ts = <<>> THEN <<>>
    ELSE IF Len(ts) = 1 THEN ts[1]
    ELSE LET mid == Len(ts) \div 2
         IN Join(SubSeq(ts, 1, mid)) \o Join(SubSeq(ts, mid + 1, Len(ts)))

\* str.encode('utf-8') of one code point
Utf8Char(c) ==
    IF c < 128 THEN <<c>>
    ELSE IF c < 2048 THEN <<192 + (c \div 64), 128 + (c % 64)>>
    ELSE <<224 + (c \div 4096), 128 + ((c \div 64) % 64), 128 + (c % 64)>>
\* str.encode('utf-8')
Utf8(s) == Join([i \in DOMAIN s |-> Utf8Char(s[i])])

-----------------------------------------------------------------------------
(* yaml.dump(data, sort_keys=True, default_flow_style=False): block style, *)
(* the keys of every mapping sorted, a sequence inside a mapping not       *)
(* indented, allow_unicode left False so the text is ASCII.  The scalar    *)
(* styles cover the values the program builds; line folding of plain       *)
(* scalars longer than 80 columns is not modelled.                         *)

IsDigit(c) == c >= 48 /\ c <= 57
AllDigits(s) == s # <<>> /\ \A i \in DOMAIN s : IsDigit(s[i])
\* the resolver's timestamp pattern, as far as its date part
LooksLikeTimestamp(s) ==
    /\ Len(s) >= 10
    /\ \A i \in {1, 2, 3, 4, 6, 7, 9, 10} : IsDigit(s[i])
    /\ s[5] = 45 /\ s[8] = 45
IsPrintableAscii(c) == c >= 32 /\ c <= 126
\* a string the emitter cannot write plain or single-quoted
NeedsDoubleQuote(s) == \E i \in DOMAIN s : ~IsPrintableAscii(s[i])
\* a string whose plain form would read back as something else
NeedsSingleQuote(s) ==
    \/ s = <<>>
    \/ AllDigits(s)
    \/ s \in {T.null, T.true, T.false}
    \/ LooksLikeTimestamp(s)
    \/ s # <<>> /\ (s[1] = 32 \/ s[Len(s)] = 32 \/ s[Len(s)] = 58)
    \/ s # <<>> /\ \E i \in DOMAIN T.indicators : s[1] = T.indicators[i]
    \/ \E i \in 1..(Len(s) - 1) :
          \/ s[i] = 58 /\ s[i + 1] = 32
          \/ s[i] = 32 /\ s[i + 1] = 35

HexUpper(n) == T.hexDigitsUpper[n + 1]
\* the double-quoted escape of one code point
EscapeChar(c) ==
    IF c = 34 THEN <<92, 34>>
    ELSE IF c = 92 THEN <<92, 92>>
    ELSE IF c = 10 THEN <<92, 110>>
    ELSE IF IsPrintableAscii(c) THEN <<c>>
    ELSE IF c < 256 THEN <<92, 120, HexUpper(c \div 16), HexUpper(c % 16)>>
    ELSE <<92, 117, HexUpper((c \div 4096) % 16), HexUpper((c \div 256) % 16),
           HexUpper((c \div 16) % 16), HexUpper(c % 16)>>

YamlStr(s) ==
    IF NeedsDoubleQuote(s)
    THEN <<34>> \o Join([i \in DOMAIN s |-> EscapeChar(s[i])]) \o <<34>>
    ELSE IF NeedsSingleQuote(s)
    THEN <<39>> \o Join([i \in DOMAIN s |-> IF s[i] = 39 THEN <<39, 39>> ELSE <<s[i]>>])
              \o <<39>>
    ELSE s

YamlScalar(x) ==
    CASE x.t = "str" -> YamlStr(x.v)
      [] x.t = "int" -> Decimal(x.v)
      [] x.t = "none" -> T.null

Spaces(n) == [i \in 1..n |-> 32]

\* the pairs of a mapping in the order of their keys
SortedPairs(ps) ==
    LET rank(i) == 1 + Cardinality({j \in DOMAIN ps : LexLess(ps[j][1], ps[i][1])})
    IN [r \in DOMAIN ps |-> ps[CHOOSE i \in DOMAIN ps : rank(i) = r]]


\* what sort_keys=True does to the pairs of a mapping
OrderPairs(ps) == SortedPairs(ps)

\* the nodes below a collection, in the order the representer visits them
Children(x) ==
    IF x.t = "list" THEN x.v
    ELSE With(OrderPairs(x.v), LAMBDA ps : [i \in DOMAIN ps |-> ps[i][2]])

\* Serializer.anchor_node: an object met a second time gets the next anchor,
\* and is not entered again.  st = [seen, anchored]
RECURSIVE AnchorNode(_, _)
RECURSIVE AnchorItems(_, _, _)
AnchorNode(x, st) ==
    IF IsScalar(x) THEN st
    ELSE IF x.id \in st.seen
    THEN (IF InList(x.id, st.anchored) THEN st
          ELSE [st EXCEPT !.anchored = Append(@, x.id)])
    ELSE AnchorItems(Children(x), 1, [st EXCEPT !.seen = @ \cup {x.id}])
AnchorItems(xs, k, st) ==
    IF k > Len(xs) THEN st
    ELSE With(AnchorNode(xs[k], st), LAMBDA st2 : AnchorItems(xs, k + 1, st2))

\* the objects that get an anchor, in the order of their anchors
Anchors(data) == AnchorNode(data, [seen |-> {}, anchored |-> <<>>]).anchored

\* Serializer.generate_anchor: "id%03d"
AnchorName(anchors, id) ==
    With(CHOOSE k \in DOMAIN anchors : anchors[k] = id, LAMBDA k :
         <<105, 100, 48 + ((k \div 100) % 10), 48 + ((k \div 10) % 10), 48 + (k % 10)>>)

\* Serializer.serialize_node and the emitter, for the node x that follows
\* "key:" (place "key") or "-" (place "item"); indent is the indentation of
\* the lines of x.  The result is [text, done]: done are the objects written
\* so far, and an object of done is written as an alias.
RECURSIVE Serialize(_, _, _, _, _)
RECURSIVE SerializeItems(_, _, _, _, _, _)
Serialize(x, indent, place, anchors, done) ==
    IF IsScalar(x)
    THEN [text |-> <<32>> \o YamlScalar(x) \o <<10>>, done |-> done]
    ELSE IF x.id \in done
    THEN [text |-> <<32, 42>> \o AnchorName(anchors, x.id) \o <<10>>, done |-> done]
    ELSE With(IF InList(x.id, anchors) THEN <<32, 38>> \o AnchorName(anchors, x.id)
              ELSE <<>>,
              LAMBDA anchor :
         IF x.v = <<>>
         THEN [text |-> anchor \o <<32>>
                          \o (IF x.t = "list" THEN T.emptyList ELSE T.emptyDict) \o <<10>>,
               done |-> done \cup {x.id}]
         ELSE With(SerializeItems(x, 1, indent, anchors, <<>>, done \cup {x.id}),
                   LAMBDA r :
              [text |-> IF place = "item" /\ anchor = <<>>
                        THEN <<32>> \o SliceFrom(r.text, indent)
                        ELSE anchor \o <<10>> \o r.text,
               done |-> r.done]))
\* the lines of the items of x from the k-th on, after the text written so far
SerializeItems(x, k, indent, anchors, text, done) ==
    IF k > Len(x.v) THEN [text |-> text, done |-> done]
    ELSE IF x.t = "list"
    THEN With(Serialize(x.v[k], indent + 2, "item", anchors, done), LAMBDA r :
              SerializeItems(x, k + 1, indent, anchors,
                             text \o Spaces(indent) \o <<45>> \o r.text, r.done))
    ELSE With(OrderPairs(x.v)[k], LAMBDA pair :
         With(Serialize(pair[2], IF pair[2].t = "list" THEN indent ELSE indent + 2,
                        "key", anchors, done), LAMBDA r :
              SerializeItems(x, k + 1, indent, anchors,
                             text \o Spaces(indent) \o YamlStr(pair[1]) \o <<58>> \o r.text,
                             r.done)))

\* yaml.dump of a list or a dict
yaml_dump(data) ==
    IF data.v = <<>>
    THEN (IF data.t = "list" THEN T.emptyList ELSE T.emptyDict) \o <<10>>
    ELSE With(Anchors(data), LAMBDA anchors :
              SerializeItems(data, 1, 0, anchors, <<>>, {data.id}).text)

-----------------------------------------------------------------------------
(* hashlib.sha256(...).hexdigest().  The digest is modelled by a sum of     *)
(* position-weighted bytes, DigestHexLen hexadecimal digits wide: it       *)
(* depends on every byte, on its position and on the length.               *)

RECURSIVE Power(_, _)
Power(b, e) == IF e = 0 THEN 1 ELSE b * Power(b, e - 1)
DigestModulus == Power(16, DigestHexLen)
Weight(i) == 1 + ((i * i * 31 + i * 17) % 4093)
RECURSIVE DigestSum(_, _, _)
DigestSum(b, lo, hi) ==
    IF lo > hi THEN 0
    ELSE IF lo = hi THEN (Weight(lo) * (b[lo] + 1)) % DigestModulus
    ELSE LET mid == (lo + hi) \div 2
         IN (DigestSum(b, lo, mid) + DigestSum(b, mid + 1, hi)) % DigestModulus
HexLower(n) == T.hexDigitsLower[n + 1]
sha256_hexdigest(b) ==
    With((DigestSum(b, 1, Len(b)) + Len(b)) % DigestModulus, LAMBDA d :
         [i \in 1..DigestHexLen |-> HexLower((d \div Power(16, DigestHexLen - i)) % 16)])

-----------------------------------------------------------------------------
(* ConfigGenerator.compute_config_hash                                     *)

\* a header that lacks the NUL byte
HashHeaderNoNul(content_size) == T.config \o <<32>> \o Decimal(content_size)

\* header = f"{object_type} {content_size}\0"
HashHeader(content_size) == T.config \o <<32>> \o Decimal(content_size) \o <<0>>

\* the combined bytes: the header, then the content
Combined(content) == With(Utf8(content), LAMBDA bytes :
                          Utf8(HashHeader(Len(bytes))) \o bytes)

compute_config_hash(config_data) ==
    With(yaml_dump(config_data), LAMBDA config_yaml_ :
         With(Combined(config_yaml_), LAMBDA combined :
              <<sha256_hexdigest(combined), config_yaml_>>))

-----------------------------------------------------------------------------
(* Results of calls that can raise, files, and the clock.                  *)

Return(x) == [raised |-> FALSE, exc |-> "", v |-> x]
Raise(e) == [raised |-> TRUE, exc |-> e, v |-> PyNone]
NotCalled == Return(PyNone)

NoFile == [exists |-> FALSE, content |-> <<>>]
File(text) == [exists |-> TRUE, content |-> text]

TwoDigits(n) == <<48 + (n \div 10), 48 + (n % 10)>>
\* what datetime.utcnow() can read after it read now: the same second or the next
Ticks(now) == {now, Min(now + 1, MaxClock)}
\* datetime.isoformat() of a time with no microseconds
isoformat(now) == T_datePrefix \o TwoDigits(now)
\* datetime.strftime('%Y-%m-%dT%H:%M:%SZ')
strftime(now) == T_datePrefix \o TwoDigits(now) \o <<90>>

\* a == b on values: by content, whatever the objects
PyEq(a, b) == Plain(a) = Plain(b)
\* len(x): defined on str, list and dict
HasLen(x) == x.t \in {"str", "list", "dict"}
PyLen(x) == Len(x.v)

\* s.split(sep)
Split(s, sep) ==
    LET pos == {i \in DOMAIN s : s[i] = sep}
        n == Cardinality(pos)
        nth(k) == IF k = 0 THEN 0
                  ELSE IF k = n + 1 THEN Len(s) + 1
                  ELSE CHOOSE i \in pos : Cardinality({j \in pos : j < i}) = k - 1
    IN [k \in 1..(n + 1) |-> SubSeq(s, nth(k - 1) + 1, nth(k) - 1)]

-----------------------------------------------------------------------------
(* ConfigGenerator.detect_capabilities                                     *)

files_to_check ==
    << <<"Dockerfile", T.containerized>>,
       <<"docker-compose.yml", T.dockerCompose>>,
       <<"docker-compose.yaml", T.dockerCompose>>,
       <<".github/workflows", T.pipeline>>,
       <<"deploy.yaml", T.deployable>>,
       <<"deploy.yml", T.deployable>> >>

MarkerPaths == {files_to_check[i][1] : i \in DOMAIN files_to_check}

\* the loop body with the membership test: a tag is appended once
AppendOnce(caps, capability) ==
    IF ~InList(capability, caps) THEN Append(caps, capability) ELSE caps

\* the loop body without the membership test
AppendAlways(caps, capability) == Append(caps, capability)

AppendCapability(caps, capability) == AppendOnce(caps, capability)

RECURSIVE DetectLoop(_, _, _)
DetectLoop(existing, i, caps) ==
    IF i > Len(files_to_check) THEN caps
    ELSE DetectLoop(existing, i + 1,
                    IF files_to_check[i][1] \in existing
                    THEN AppendCapability(caps, files_to_check[i][2])
                    ELSE caps)

detect_capabilities(existing) == DetectLoop(existing, 1, <<>>)

-----------------------------------------------------------------------------
(* ConfigGenerator.fetch_github_metadata and _get_default_metadata         *)

get_default_metadata(now) ==
    DictDisplay("default_metadata", <<
        <<K.stars, PyInt(0)>>,
        <<K.forks, PyInt(0)>>,
        <<K.issues, PyInt(0)>>,
        <<K.license, PyStr(T.NoLicense)>>,
        <<K.topics, PyList("default_topics", <<>>)>>,
        <<K.pulls, DictDisplay("default_pulls",
                               << <<K.open, PyInt(0)>>, <<K.closed, PyInt(0)>> >>)>>,
        <<K.issues, DictDisplay("default_issues",
                                << <<K.open, PyInt(0)>>, <<K.closed, PyInt(0)>> >>)>>,
        <<K.latest_commit, PyStr(isoformat(now))>> >>)

\* what urlopen and json.loads give for one URL: a decoded body, or one of the
\* three except clauses of fetch_url
Body(x) == [kind |-> "ok", body |-> x]
Failed(k) == [kind |-> k, body |-> PyNone]

fetch_url(response, default_value) ==
    IF response.kind = "ok" THEN response.body ELSE default_value

NotFoundBody == DictDisplay("not_found", << <<K.message, PyStr(T.NotFound)>> >>)

\* the record built from the bodies once the primary lookup answered
BuildMetadata(repo_data, topics_data, pulls_open, pulls_closed, issues_open, issues_closed, now) ==
    IF ~HasLen(pulls_open) \/ ~HasLen(pulls_closed)
       \/ ~HasLen(issues_open) \/ ~HasLen(issues_closed)
    THEN Raise("TypeError")
    ELSE IF ~IsDict(DictGet(repo_data, K.license, PyDict("no_license", <<>>)))
    THEN Raise("AttributeError")
    ELSE IF ~IsDict(topics_data)
    THEN Raise("AttributeError")
    ELSE Return(DictDisplay("metadata", <<
        <<K.stars, DictGet(repo_data, K.stargazers_count, PyInt(0))>>,
        <<K.forks, DictGet(repo_data, K.forks_count, PyInt(0))>>,
        <<K.issues, DictGet(repo_data, K.open_issues_count, PyInt(0))>>,
        <<K.license, DictGet(DictGet(repo_data, K.license, PyDict("no_license", <<>>)),
                             K.spdx_id, PyStr(T.NoLicense))>>,
        <<K.topics, DictGet(topics_data, K.names, PyList("no_names", <<>>))>>,
        <<K.pulls, DictDisplay("pulls", << <<K.open, PyInt(PyLen(pulls_open))>>,
                                           <<K.closed, PyInt(PyLen(pulls_closed))>> >>)>>,
        <<K.issues, DictDisplay("issues", << <<K.open, PyInt(PyLen(issues_open))>>,
                                            <<K.closed, PyInt(PyLen(issues_closed))>> >>)>>,
        <<K.latest_commit, DictGet(repo_data, K.updated_at, PyStr(isoformat(now)))>> >>))

fetch_github_metadata(e, a, now) ==
    IF ~e.github_token
    THEN Return(get_default_metadata(now))
    ELSE IF Len(Split(e.github_repository, 47)) # 2
    THEN Raise("ValueError")
    ELSE LET repo_data == fetch_url(a.repo, NotFoundBody)
         IN IF ~IsDict(repo_data)
            THEN Raise("AttributeError")
            ELSE IF PyEq(DictGet(repo_data, K.message, PyNone), PyStr(T.NotFound))
            THEN Return(get_default_metadata(now))
            ELSE BuildMetadata(
                     repo_data,
                     fetch_url(a.topics,
                               DictDisplay("no_topics",
                                           << <<K.names, PyList("no_topics_names", <<>>)>> >>)),
                     fetch_url(a.pulls_open, PyList("no_pulls_open", <<>>)),
                     fetch_url(a.pulls_closed, PyList("no_pulls_closed", <<>>)),
                     fetch_url(a.issues_open, PyList("no_issues_open", <<>>)),
                     fetch_url(a.issues_closed, PyList("no_issues_closed", <<>>)),
                     now)

-----------------------------------------------------------------------------
(* ConfigGenerator.generate_config                                         *)

\* len of the SHA prefix in the image tag
ShaPrefixLen == 7

\* self.github_sha[:7]
ShaPrefix(sha) == SlicePrefix(sha, ShaPrefixLen)

\* the SHA taken whole
ShaWhole(sha) == sha

ImageTag(sha) == ShaPrefix(sha)

\* the dict display of generate_config
BuildConfig(e, caps, github_metadata, now) ==
    LET parts == Split(e.github_repository, 47)
        repo_owner == parts[1]
        repo_name == parts[2]
    IN DictDisplay("config", <<
        <<K.name, PyStr(e.github_repository)>>,
        <<K.address, PyStr(T.address \o e.github_repository)>>,
        <<K.capabilities, PyList("capabilities", [i \in DOMAIN caps |-> PyStr(caps[i])])>>,
        <<K.status, PyStr(T.active)>>,
        <<K.metadata, DictDisplay("config_metadata", <<
            <<K.description, PyStr(T.description \o e.github_repository)>>,
            <<K.owner, PyStr(e.github_actor)>>,
            <<K.last_updated, PyStr(strftime(now))>>,
            <<K.tags, DictGet(github_metadata, K.topics, PyList("no_tags", <<>>))>>,
            <<K.github, github_metadata>>,
            <<K.custom_properties, DictDisplay("custom_properties", <<
                <<K.deploy_environment, PyNone>>,
                <<K.monitoring_enabled, PyNone>>,
                <<K.auto_scale, PyNone>>,
                <<K.service, PyNone>>,
                <<K.app, PyStr(repo_name)>>,
                <<K.image, PyStr(e.github_repository \o <<58>> \o ImageTag(e.github_sha))>>,
                <<K.network, PyStr(T.network)>>,
                <<K.domain, PyStr(repo_name \o <<46>> \o repo_owner \o T.dev)>> >>)>> >>)>> >>)

\* the try block: any exception ends in sys.exit(1)
generate_config(e, existing, a, now_fetch, now_config) ==
    IF Len(Split(e.github_repository, 47)) # 2
    THEN Raise("SystemExit")
    ELSE LET github_metadata == fetch_github_metadata(e, a, now_fetch)
         IN IF github_metadata.raised
            THEN Raise("SystemExit")
            ELSE Return(BuildConfig(e, detect_capabilities(existing),
                                    github_metadata.v, now_config))

-----------------------------------------------------------------------------
(* ConfigGenerator.store_config and the two writes of main.  A write is    *)
(* open(path, 'w'), which creates or truncates the file, then f.write; an  *)
(* outcome names the call that raised, "ok" when none did.                 *)

StoreOutcomes == {"ok", "makedirs_root", "makedirs_fanout", "open", "write"}
WriteOutcomes == {"ok", "open", "write"}

\* what a write that raised part-way can leave of the text
PartialTexts(text) == {SubSeq(text, 1, 0), SubSeq(text, 1, Len(text) \div 2)}

\* with open(path, 'w') as f: f.write(text), on a file of the working directory
WriteFile(file, text, outcome, partial) ==
    CASE outcome = "ok" -> File(text)
      [] outcome = "open" -> file
      [] outcome = "write" -> File(partial)

\* os.path.join(hash_path, config_hash[2:]) under hash_path = <root>/<config_hash[:2]>
ObjectPath(hash) == [dir |-> SlicePrefix(hash, 2), name |-> SliceFrom(hash, 2)]


config_path(hash) == ObjectPath(hash)

Put(objects, path, text) ==
    {o \in objects : ~(o.dir = path.dir /\ o.name = path.name)}
        \cup {[dir |-> path.dir, name |-> path.name, content |-> text]}

\* the directories and the objects after store_config
StoreDirs(d, hash, outcome) ==
    CASE outcome = "makedirs_root" -> d
      [] outcome = "makedirs_fanout" -> [d EXCEPT !.root = TRUE]
      [] OTHER -> [root |-> TRUE, fanout |-> d.fanout \cup {config_path(hash).dir}]
StoreObjects(objects, hash, text, outcome, partial) ==
    CASE outcome = "ok" -> Put(objects, config_path(hash), text)
      [] outcome = "write" -> Put(objects, config_path(hash), partial)
      [] OTHER -> objects
\* an outcome the file system can produce: makedirs is only called for a
\* directory that does not exist
StorePossible(d, hash, outcome) ==
    /\ outcome = "makedirs_root" => ~d.root
    /\ outcome = "makedirs_fanout" => config_path(hash).dir \notin d.fanout

-----------------------------------------------------------------------------
(* The environment of a run: os.environ, the working directory, GitHub.    *)

Env(repository, sha, token, spec) ==
    [github_repository |-> repository, github_sha |-> sha, github_token |-> token,
     github_actor |-> T_ciBot, spec_file |-> spec]

\* the file SPEC_FILE_PATH names, parsed; PyNone when the variable is unset
SpecFileMapping ==
    DictDisplay("spec", << <<K.artifacts,
        DictDisplay("spec_artifacts", << <<K.backend,
            DictDisplay("spec_backend", << <<K.runtime, PyStr(T_docker)>> >>)>> >>)>> >>)

GoodRepo ==
    Body(DictDisplay("repo", <<
        <<K.stargazers_count, PyInt(1)>>,
        <<K.forks_count, PyInt(2)>>,
        <<K.open_issues_count, PyInt(3)>>,
        <<K.license, DictDisplay("repo_license", << <<K.spdx_id, PyStr(T_MIT)>> >>)>>,
        <<K.updated_at, PyStr(T_updatedAt)>> >>))
NullLicenseRepo ==
    Body(DictDisplay("repo", <<
        <<K.stargazers_count, PyInt(1)>>,
        <<K.license, PyNone>> >>))
SparseRepo == Body(PyDict("repo", <<>>))
ListRepo == Body(PyList("repo", <<>>))
GoodTopics == Body(DictDisplay("topics", << <<K.names, PyList("names", <<PyStr(T_t1)>>)>> >>))
ListTopics == Body(PyList("topics", <<>>))
TwoItems == Body(PyList("items", <<PyDict("item1", <<>>), PyDict("item2", <<>>)>>))
NullBody == Body(PyNone)

Api(repo, topics, po, pc_, io, ic) ==
    [repo |-> repo, topics |-> topics, pulls_open |-> po, pulls_closed |-> pc_,
     issues_open |-> io, issues_closed |-> ic]
GoodApi == Api(GoodRepo, GoodTopics, TwoItems, TwoItems, TwoItems, TwoItems)
NullLicenseApi == Api(NullLicenseRepo, GoodTopics, TwoItems, TwoItems, TwoItems, TwoItems)
DownApi == Api(Failed("URLError"), Failed("URLError"), Failed("URLError"),
               Failed("URLError"), Failed("URLError"), Failed("URLError"))

World(e, m, a) == [env |-> e, markers |-> m, api |-> a]

\* the runs of main that the model follows
MainWorlds ==
    { World(Env(T_acmeWidget, T_shaLong, TRUE, PyNone), {"Dockerfile"}, GoodApi),
      World(Env(T_acmeWidget, T_shaShort, TRUE, PyNone), {}, NullLicenseApi),
      World(Env(T_noslash, T_shaEmpty, FALSE, PyNone), {}, DownApi) }

-----------------------------------------------------------------------------
(* ConfigGenerator.main, one action per step; a run is one process.        *)

\* the memory of a process that has computed nothing yet
Idle ==
    /\ capabilities = <<>>
    /\ metadata = NotCalled
    /\ config = PyNone
    /\ config_hash = <<>>
    /\ config_yaml = <<>>
    /\ log = <<>>
    /\ exit_code = 0

Init ==
    /\ pc = "start"
    /\ runs = 1
    /\ clock = 0
    /\ \E w \in MainWorlds : env = w.env /\ markers = w.markers /\ api = w.api
    /\ dirs = [root |-> FALSE, fanout |-> {}]
    /\ store = {}
    /\ config_file = NoFile
    /\ hash_file = NoFile
    /\ Idle

\* config = self.generate_config(): the split of the identity, then the
\* detector, then the fetcher; an exception of any of them ends the process
MainGenerate ==
    /\ pc = "start"
    /\ \E now_fetch \in Ticks(clock) : \E now_config \in Ticks(now_fetch) :
          LET r == generate_config(env, markers, api, now_fetch, now_config)
          IN /\ clock' = now_config
             /\ IF Len(Split(env.github_repository, 47)) # 2
                THEN UNCHANGED <<capabilities, metadata>>
                ELSE /\ capabilities' = detect_capabilities(markers)
                     /\ metadata' = fetch_github_metadata(env, api, now_fetch)
             /\ IF r.raised
                THEN /\ pc' = "exited"
                     /\ exit_code' = 1
                     /\ log' = Append(log, "Error generating configuration")
                     /\ UNCHANGED config
                ELSE /\ pc' = "generated"
                     /\ config' = r.v
                     /\ UNCHANGED <<exit_code, log>>
    /\ UNCHANGED <<env, markers, api, config_hash, config_yaml, dirs, store,
                   config_file, hash_file, runs>>

\* config_hash, config_yaml = self.compute_config_hash(config)
MainHash ==
    /\ pc = "generated"
    /\ \E result \in {compute_config_hash(config)} :
          /\ config_hash' = result[1]
          /\ config_yaml' = result[2]
    /\ pc' = "hashed"
    /\ UNCHANGED <<env, markers, api, clock, capabilities, metadata, config, dirs,
                   store, config_file, hash_file, log, exit_code, runs>>

\* self.store_config(config_hash, config_yaml): every exception is printed
MainStore ==
    /\ pc = "hashed"
    /\ \E outcome \in StoreOutcomes : \E partial \in PartialTexts(config_yaml) :
          /\ StorePossible(dirs, config_hash, outcome)
          /\ dirs' = StoreDirs(dirs, config_hash, outcome)
          /\ store' = StoreObjects(store, config_hash, config_yaml, outcome, partial)
          /\ log' = IF outcome = "ok" THEN log
                    ELSE Append(log, "Warning: Failed to store configuration")
    /\ pc' = "stored"
    /\ UNCHANGED <<env, markers, api, clock, capabilities, metadata, config,
                   config_hash, config_yaml, config_file, hash_file, exit_code, runs>>

\* the except clause of main: an exception is printed and ends the process
ExitOnError(outcome, next) ==
    IF outcome = "ok"
    THEN [pc |-> next, fatal |-> FALSE]
    ELSE [pc |-> "exited", fatal |-> TRUE]

\* an except clause that prints the exception and goes on, as store_config's
PrintAndGoOn(outcome, next) == [pc |-> next, fatal |-> outcome # "ok"]

OnWriteOutcome(outcome, next) == ExitOnError(outcome, next)

\* with open(self.config_file, 'w') as f: f.write(config_yaml)
MainWriteConfig ==
    /\ pc = "stored"
    /\ \E outcome \in WriteOutcomes : \E partial \in PartialTexts(config_yaml) :
          /\ config_file' = WriteFile(config_file, config_yaml, outcome, partial)
          /\ pc' = OnWriteOutcome(outcome, "written").pc
          /\ IF OnWriteOutcome(outcome, "written").fatal
             THEN exit_code' = 1 /\ log' = Append(log, "Fatal error")
             ELSE UNCHANGED <<log, exit_code>>
    /\ UNCHANGED <<env, markers, api, clock, capabilities, metadata, config,
                   config_hash, config_yaml, dirs, store, hash_file, runs>>

\* with open('.nodeprop-hash', 'w') as f: f.write(config_hash)
MainWriteHash ==
    /\ pc = "written"
    /\ \E outcome \in WriteOutcomes : \E partial \in PartialTexts(config_hash) :
          /\ hash_file' = WriteFile(hash_file, config_hash, outcome, partial)
          /\ pc' = OnWriteOutcome(outcome, "exited").pc
          /\ IF OnWriteOutcome(outcome, "exited").fatal
             THEN exit_code' = 1 /\ log' = Append(log, "Fatal error")
             ELSE exit_code' = 0 /\ UNCHANGED log
    /\ UNCHANGED <<env, markers, api, clock, capabilities, metadata, config,
                   config_hash, config_yaml, dirs, store, config_file, runs>>

\* the next invocation of the script, in the same working directory
NewRun ==
    /\ pc = "exited"
    /\ runs < MaxRuns
    /\ runs' = runs + 1
    /\ pc' = "start"
    /\ \E w \in MainWorlds : env' = w.env /\ markers' = w.markers /\ api' = w.api
    /\ capabilities' = <<>>
    /\ metadata' = NotCalled
    /\ config' = PyNone
    /\ config_hash' = <<>>
    /\ config_yaml' = <<>>
    /\ log' = <<>>
    /\ exit_code' = 0
    /\ UNCHANGED <<clock, dirs, store, config_file, hash_file>>

Next ==
    \/ MainGenerate
    \/ MainHash
    \/ MainStore
    \/ MainWriteConfig
    \/ MainWriteHash
    \/ NewRun

Spec == Init /\ [][Next]_vars

-----------------------------------------------------------------------------
(* compute_config_hash on its own: the documents it is handed.             *)

KeyPool == <<K.stars, K.name, K.app, K.tags>>
\* two dicts of the same content, built in the two orders
NestedAB == PyDict("ab", << <<K.open, PyInt(0)>>, <<K.closed, PyInt(12)>> >>)
NestedBA == PyDict("ba", << <<K.closed, PyInt(12)>>, <<K.open, PyInt(0)>> >>)
\* two lists of the same content
ListOne == PyList("one", <<PyStr(T_t1)>>)
ListTwo == PyList("two", <<PyStr(T_t1)>>)
HashValues == {PyInt(1), PyStr(<<233, 116, 233>>), PyNone, ListOne, ListTwo,
               NestedAB, NestedBA}

\* the sequences of n distinct numbers of 1..m
Arrangements(n, m) ==
    {p \in [1..n -> 1..m] : \A i, j \in 1..n : i # j => p[i] # p[j]}

\* the dicts of at most MaxKeys keys of the pool, in every insertion order
HashDocs ==
    UNION { { PyDict("doc", [i \in 1..n |-> <<KeyPool[p[i]], vals[i]>>]) :
                p \in Arrangements(n, MaxKeys), vals \in [1..n -> HashValues] } :
            n \in 0..MaxKeys }

InitHash ==
    /\ pc = "generated"
    /\ runs = 1
    /\ clock = 0
    /\ env = Env(T_acmeWidget, T_shaEmpty, FALSE, PyNone)
    /\ markers = {}
    /\ api = DownApi
    /\ dirs = [root |-> FALSE, fanout |-> {}]
    /\ store = {}
    /\ config_file = NoFile
    /\ hash_file = NoFile
    /\ capabilities = <<>>
    /\ metadata = NotCalled
    /\ config \in HashDocs
    /\ config_hash = <<>>
    /\ config_yaml = <<>>
    /\ log = <<>>
    /\ exit_code = 0

SpecHash == InitHash /\ [][MainHash]_vars

-----------------------------------------------------------------------------
(* detect_capabilities on its own, called again and again on a working     *)
(* directory that does not change.                                         *)

InitDetect ==
    /\ pc = "detect"
    /\ runs = 0
    /\ clock = 0
    /\ env = Env(T_acmeWidget, T_shaEmpty, FALSE, PyNone)
    /\ markers \in SUBSET MarkerPaths
    /\ api = DownApi
    /\ dirs = [root |-> FALSE, fanout |-> {}]
    /\ store = {}
    /\ config_file = NoFile
    /\ hash_file = NoFile
    /\ Idle

DetectCall ==
    /\ pc \in {"detect", "detected"}
    /\ runs < MaxRuns
    /\ runs' = runs + 1
    /\ capabilities' = detect_capabilities(markers)
    /\ pc' = "detected"
    /\ UNCHANGED <<env, markers, api, clock, metadata, config, config_hash,
                   config_yaml, dirs, store, config_file, hash_file, log, exit_code>>

SpecDetect == InitDetect /\ [][DetectCall]_vars

-----------------------------------------------------------------------------
(* fetch_github_metadata on its own, over the answers of the endpoints.    *)

RepoResponses == {GoodRepo, NullLicenseRepo, SparseRepo, ListRepo,
                  Failed("HTTPError"), Failed("URLError"), Failed("Exception")}
TopicsResponses == {GoodTopics, ListTopics, Failed("HTTPError")}
CountResponses == {TwoItems, NullBody, Failed("URLError")}
FetchApis == [repo : RepoResponses, topics : TopicsResponses,
              pulls_open : CountResponses, pulls_closed : CountResponses,
              issues_open : CountResponses, issues_closed : CountResponses]
FetchEnvs == {Env(r, T_shaEmpty, tok, PyNone) :
                r \in {T_acmeWidget, T_noslash, T_twoSlashes}, tok \in BOOLEAN}

InitFetch ==
    /\ pc = "fetch"
    /\ runs = 0
    /\ clock \in 0..MaxClock
    /\ env \in FetchEnvs
    /\ markers = {}
    /\ api \in FetchApis
    /\ dirs = [root |-> FALSE, fanout |-> {}]
    /\ store = {}
    /\ config_file = NoFile
    /\ hash_file = NoFile
    /\ Idle

FetchCall ==
    /\ pc = "fetch"
    /\ metadata' = fetch_github_metadata(env, api, clock)
    /\ pc' = "fetched"
    /\ UNCHANGED <<env, markers, api, clock, capabilities, config, config_hash,
                   config_yaml, dirs, store, config_file, hash_file, log, exit_code,
                   runs>>

SpecFetch == InitFetch /\ [][FetchCall]_vars

-----------------------------------------------------------------------------
(* generate_config on its own, over environments, working directories and  *)
(* answers of GitHub.                                                      *)

Shas == {T_shaEmpty, T_shaShort, T_shaSeven, T_shaLong}
GenEnvs == {Env(r, s, tok, sp) :
              r \in {T_acmeWidget, T_noslash}, s \in Shas, tok \in BOOLEAN,
              sp \in {PyNone, SpecFileMapping}}
GenMarkers == {{}, {"Dockerfile"},
               {"docker-compose.yml", "docker-compose.yaml", ".github/workflows"}}
GenApis == {GoodApi, NullLicenseApi, DownApi}

InitGen ==
    /\ pc = "start"
    /\ runs = 1
    /\ clock = 0
    /\ env \in GenEnvs
    /\ markers \in GenMarkers
    /\ api \in GenApis
    /\ dirs = [root |-> FALSE, fanout |-> {}]
    /\ store = {}
    /\ config_file = NoFile
    /\ hash_file = NoFile
    /\ Idle

SpecGen == InitGen /\ [][MainGenerate]_vars

-----------------------------------------------------------------------------
(* What the specification says of the program, stated over the states of   *)
(* the model.                                                              *)

\* the identifier of a text as the Canonical Hasher defines it: the hash of
\* "config", a space, the decimal byte length, a NUL byte, then the bytes
Identifier(text) ==
    With(Utf8(text), LAMBDA bytes :
         sha256_hexdigest(Utf8(T.config) \o <<32>> \o Utf8(Decimal(Len(bytes)))
                              \o <<0>> \o bytes))

\* the text has the line, starting in its first column
HasLine(text, line) ==
    \E i \in 1..(Len(text) - Len(line)) :
        /\ i = 1 \/ text[i - 1] = 10
        /\ SubSeq(text, i, i + Len(line)) = line \o <<10>>

\* the elements of a sequence
Range(s) == {s[i] : i \in DOMAIN s}

\* C1: two documents that are logically equal (same keys, same values at
\* every level) get the same identifier from compute_config_hash, whatever
\* the order their keys were inserted in.
C1_EqualDocumentsSameIdentifier ==
    pc = "hashed" =>
        \A d \in HashDocs :
            PyEq(d, config) => compute_config_hash(d)[1] = config_hash

\* C2: after a run of main that exits without error, the primary output
\* file has an `id` field whose value is the identifier written to
\* .nodeprop-hash, and that identifier is the hash of the document that was
\* handed to the hasher, which has no `id`.
C2_PrimaryFileCarriesId ==
    (pc = "exited" /\ exit_code = 0) =>
        /\ hash_file = File(config_hash)
        /\ ~HasKey(config, K.id)
        /\ config_hash = compute_config_hash(config)[1]
        /\ HasLine(config_file.content, K.id \o <<58, 32>> \o YamlStr(hash_file.content))

\* C3: the identifier compute_config_hash returns is the hash of "config",
\* a space, the decimal byte length of the returned text, a NUL byte and
\* the bytes of the returned text.
C3_HeaderCorrect ==
    pc = "hashed" => config_hash = Identifier(config_yaml)

\* C3 happens: a document with a non-ASCII string, whose text has a length
\* of several digits, has been hashed
C3_Witness ==
    /\ pc = "hashed"
    /\ Len(Utf8(config_yaml)) >= 10
    /\ \E i \in DOMAIN config.v : config.v[i][2] = PyStr(<<233, 116, 233>>)

\* C4: fetch_github_metadata never raises: whatever the credential, the
\* repository identity and the answers of the endpoints, it returns a
\* metadata record, the default one when there is no credential.
C4_FetchNeverRaises ==
    pc = "fetched" =>
        /\ ~metadata.raised
        /\ IsDict(metadata.v)
        /\ ~env.github_token => PyEq(metadata.v, get_default_metadata(clock))

\* C5: a run of main exits non-zero exactly when the write of the primary
\* output file or of .nodeprop-hash failed; a failure of the
\* content-addressed copy alone does not make it exit non-zero.
C5_ExitCodePolicy ==
    pc = "exited" => (exit_code # 0 <=> InList("Fatal error", log))

\* C6: every object of the store lies at <id[0:2]>/<id[2:]> for the
\* identifier id of its content, which is a complete canonical text.
C6_ContentAddressed ==
    \A o \in store :
        /\ Len(o.dir) = 2
        /\ o.dir \o o.name = Identifier(o.content)

\* C7: when SPEC_FILE_PATH names a file that holds a mapping, the document
\* generate_config returns has the top-level entries of that mapping.
C7_SpecFileMerged ==
    (pc = "generated" /\ IsDict(env.spec_file)) =>
        \A i \in DOMAIN env.spec_file.v :
            /\ HasKey(config, env.spec_file.v[i][1])
            /\ PyEq(Item(config, env.spec_file.v[i][1]), env.spec_file.v[i][2])

\* C8: for an identity owner/repo and any SHA, the document generate_config
\* returns has no `id`, its image is the identity, ":" and the first 7
\* characters of the SHA (the whole SHA when it has fewer), its
\* metadata.github is the record the fetcher returned and its capabilities
\* are the tags the detector returned; and generate_config returns unless
\* the identity is not owner/repo or the fetcher raised.
C8_GeneratedDocument ==
    /\ pc = "generated" =>
          LET sha == env.github_sha
              meta == Item(config, K.metadata)
          IN /\ ~HasKey(config, K.id)
             /\ Item(Item(meta, K.custom_properties), K.image) =
                    PyStr(env.github_repository \o <<58>>
                              \o (IF Len(sha) < 7 THEN sha ELSE SubSeq(sha, 1, 7)))
             /\ ~metadata.raised
             /\ Item(meta, K.github) = metadata.v
             /\ Item(config, K.capabilities).v =
                    [i \in DOMAIN capabilities |-> PyStr(capabilities[i])]
    /\ pc = "exited" =>
          \/ Len(Split(env.github_repository, 47)) # 2
          \/ metadata.raised

\* C8 happens: a document was generated from a SHA of fewer than 7
\* characters, with a fetched record and detected tags
C8_Witness ==
    /\ pc = "generated"
    /\ env.github_sha = T_shaShort
    /\ env.github_token
    /\ api = GoodApi
    /\ capabilities = <<T.dockerCompose, T.pipeline>>

\* C9: detect_capabilities returns exactly the tags of the markers that
\* exist, each once, the same on every call while the markers do not
\* change: <<containerized>> for Dockerfile alone, nothing for no marker.
C9_DetectExact ==
    pc = "detected" =>
        /\ Range(capabilities) =
               {files_to_check[i][2] :
                    i \in {j \in DOMAIN files_to_check : files_to_check[j][1] \in markers}}
        /\ \A i, j \in DOMAIN capabilities : i # j => capabilities[i] # capabilities[j]
        /\ \A i, j \in DOMAIN capabilities :
               i < j => \E m \in DOMAIN files_to_check :
                           /\ files_to_check[m][1] \in markers
                           /\ files_to_check[m][2] = capabilities[i]
                           /\ \A n \in DOMAIN files_to_check :
                                  (files_to_check[n][1] \in markers
                                       /\ files_to_check[n][2] = capabilities[j]) => m < n
        /\ markers = {"Dockerfile"} => capabilities = <<T.containerized>>
        /\ markers = {} => capabilities = <<>>

\* C9 happens: both docker-compose markers exist and the detector has been
\* called twice
C9_Witness ==
    /\ pc = "detected"
    /\ runs = 2
    /\ {"docker-compose.yml", "docker-compose.yaml"} \subseteq markers
    /\ "Dockerfile" \in markers

\* C10 as stated: whenever .nodeprop-hash exists, its identifier is the
\* hash of the content that the primary output file holds.
C10_HashFileAlwaysMatches ==
    hash_file.exists =>
        /\ config_file.exists
        /\ hash_file.content = Identifier(config_file.content)

\* C10, amended: the store is touched first, the primary output file next
\* and .nodeprop-hash last, only once the primary output file holds the
\* whole text; a run whose primary write fails leaves .nodeprop-hash as it
\* was; and after a run that exits without error .nodeprop-hash holds the
\* hash of the content of the primary output file.
C10_OutputOrder ==
    /\ [](pc = "written" => config_file = File(config_yaml))
    /\ []((pc = "exited" /\ exit_code = 0) =>
              /\ hash_file.exists /\ config_file.exists
              /\ hash_file.content = Identifier(config_file.content))
    /\ [][/\ (store' # store \/ dirs' # dirs) => pc = "hashed"
          /\ config_file' # config_file => pc = "stored"
          /\ hash_file' # hash_file => (pc = "written" /\ config_file = File(config_yaml))
          /\ (pc = "stored" /\ pc' = "exited") => hash_file' = hash_file]_vars

\* C10 happens: a run whose primary write failed has ended, and the
\* .nodeprop-hash of an earlier run is still there
C10_Witness ==
    /\ pc = "exited"
    /\ exit_code = 1
    /\ runs = 2
    /\ config_yaml # <<>>
    /\ config_file # File(config_yaml)
    /\ hash_file.exists
    /\ Len(hash_file.content) = DigestHexLen
====
